---- MODULE Spec2Model ----
(***************************************************************************)
(* TheAltText backend: the free-first generation fallback chain            *)
(* (app/services/ai_vision.py generate_alt_text), the compliance scorer    *)
(* (analyze_existing_alt_text), the route handlers that consume their      *)
(* results and the monthly usage counter those handlers keep.              *)
(*                                                                         *)
(* Python strings that the code inspects character by character (model    *)
(* list entries, completion texts) are sequences of one-character strings; *)
(* opaque strings (URLs, credentials, error bodies) are TLA+ strings.      *)
(* Floats are scaled integers: confidence in 1/100, carbon in 1/10 mg.     *)
(***************************************************************************)
EXTENDS Integers, Sequences, FiniteSets, TLC

VARIABLES
    settings,      \* app.core.config.settings, read-only after start
    pc,            \* position of the generate_alt_text coroutine
    image_url,     \* argument image_url   (None, "" or a URL)
    image_base64,  \* argument image_base64 (None or a payload)
    wcag_level,    \* argument wcag_level
    idx,           \* index into all_models of the loop at line 136
    last_error,    \* local last_error
    calls,         \* the gateway's log of this invocation's POSTs
    response,      \* the last answer the gateway delivered
    outcome,       \* what the invocation returned or raised
    user,          \* current_user: tier and monthly_usage
    route,         \* the route handler in progress and its locals
    http_response, \* what the route handler answered
    db,            \* AltText rows added to the session
    bulk_jobs,     \* bulk.py's in-memory _bulk_jobs
    scored_text,   \* argument alt_text of analyze_existing_alt_text
    assessment,    \* the dict analyze_existing_alt_text returned
    scored,        \* the calls of analyze_existing_alt_text so far, with their results
    parked,        \* the frame of a second generate_alt_text coroutine, suspended
    account,       \* the user's row of the users table, as committed
    sessions,      \* per request in flight: its handler, its User object, files left
    api_keys,      \* the api_keys table: row i is the APIKey with id i
    key_log,       \* the developer-API requests answered so far, with their status
    webhook,       \* the dict of one registered webhook (webhooks.py _webhooks)
    wh_pc,         \* position of the deliver_webhook coroutine
    attempt,       \* loop variable attempt of deliver_webhook
    posts,         \* the answers to this delivery's POSTs, in order
    delivered,     \* what deliver_webhook returned
    scan_pc,       \* position of the full_site_scan coroutine
    scan_depth,    \* argument scan_depth
    max_pages,     \* argument max_pages
    depth,         \* loop variable depth
    urls_to_scan,  \* local urls_to_scan
    scan_i,        \* position of the inner loop in urls_to_scan
    next_urls,     \* local next_urls
    scanned_urls,  \* local scanned_urls
    all_results,   \* local all_results: one entry per scan_page call
    levels,        \* the lists the outer loop has iterated over, in order
    scan_result,   \* the dict full_site_scan returned
    customers,     \* the users table as billing sees it: stripe customer -> tier
    subscriptions, \* the subscriptions table
    stripe_status  \* the status the last stripe_webhook request was answered with

routeVars == <<user, route, http_response, db, bulk_jobs>>

scoreVars == <<scored_text, assessment, scored>>

\* what generate_alt_text and the route handlers of images.py and bulk.py
\* never touch
usageVars == <<account, sessions>>

keyVars == <<api_keys, key_log>>

webhookVars == <<webhook, wh_pc, attempt, posts, delivered>>

scanVars == <<scan_pc, scan_depth, max_pages, depth, urls_to_scan, scan_i,
              next_urls, scanned_urls, all_results, levels, scan_result>>

billingVars == <<customers, subscriptions, stripe_status>>

\* the state of developer.py's keys, webhooks.py, scanner.py and billing.py
serviceVars == <<keyVars, webhookVars, scanVars, billingVars>>

restVars == <<scoreVars, parked, usageVars, serviceVars>>

vars == <<settings, pc, image_url, image_base64, wcag_level, idx,
          last_error, calls, response, outcome, routeVars, restVars>>

----------------------------------------------------------------------------
(* Bounds of the model *)

\* longest raw completion text a backend answers with
MaxLen == 1
\* longest raw completion text under the shipped model lists
MaxRawLen == 3
\* most comma-separated entries of VISION_MODELS_FREE
MaxFree == 2
\* most comma-separated entries of VISION_MODELS_PAID
MaxPaid == 1
\* longest raw completion text a backend answers a route's request with
MaxRouteLen == 1
\* most files of one bulk request
MaxFiles == 2
\* longest exhaustively enumerated core of a scored text
MaxTextLen == 3
\* most calls of analyze_existing_alt_text next to a generate_alt_text
MaxScoreCalls == 3
\* most requests of one user in flight at once
MaxConcurrent == 2
\* how far below the monthly limit the user's counter starts
MaxHeadroom == 2
\* the most API keys created
MaxKeys == 2
\* the most developer-API requests of one behaviour
MaxKeyOps == 4
\* the most deliveries one webhook has counted
MaxDeliveries == 2
\* the most links discover_links returns for one page
MaxLinks == 2
\* the largest scan_depth passed to full_site_scan
MaxScanDepth == 3
\* the largest max_pages passed to full_site_scan
MaxPages == 4

----------------------------------------------------------------------------
(* Python values *)

None == "<None>"

DQ == "\""
SQ == "'"
SP == " "
TAB == "\t"

\* characters str.strip() removes (those the model's texts can hold)
Whitespace == {SP, TAB}

\* "is not None" in place of truthiness
Truthy_IsNotNone(s) == s # None

Truthy(s) == s # None /\ s # ""

SeqsUpTo(S, n) == UNION {[1..k -> S] : k \in 0..n}

NonEmptySeqsUpTo(S, n) == UNION {[1..k -> S] : k \in 1..n}

\* str.lstrip(chars)
RECURSIVE LStrip(_, _)
LStrip(s, chars) ==
    IF s # <<>> /\ Head(s) \in chars THEN LStrip(Tail(s), chars) ELSE s

\* str.rstrip(chars)
RECURSIVE RStrip(_, _)
RStrip(s, chars) ==
    IF s # <<>> /\ s[Len(s)] \in chars
    THEN RStrip(SubSeq(s, 1, Len(s) - 1), chars)
    ELSE s

\* str.strip(chars)
Strip(s, chars) == RStrip(LStrip(s, chars), chars)

\* [f(x) for x in xs if p(f(x))] with f = str.strip and p = truthiness
RECURSIVE StripAndFilter(_)
StripAndFilter(raw) ==
    IF raw = <<>> THEN <<>>
    ELSE LET m == Strip(Head(raw), Whitespace)
         IN  IF m # <<>> THEN <<m>> \o StripAndFilter(Tail(raw))
             ELSE StripAndFilter(Tail(raw))

----------------------------------------------------------------------------
(* Configuration *)

\* entries of VISION_MODELS_FREE.split(","): names, padded names, blanks
FreeEntries == { <<"a">>, <<SP, "b">>, <<SP>> }

\* entries of VISION_MODELS_PAID.split(",")
PaidEntries == { <<"p">>, <<>> }

Settings ==
    [ OPENROUTER_API_KEY : {"", "sk-or-key"},
      VISION_MODELS_FREE : NonEmptySeqsUpTo(FreeEntries, MaxFree),
      VISION_MODELS_PAID : NonEmptySeqsUpTo(PaidEntries, MaxPaid) ]

free_models == StripAndFilter(settings.VISION_MODELS_FREE)

paid_models == StripAndFilter(settings.VISION_MODELS_PAID)

Tagged(models, tier) == [i \in 1..Len(models) |-> [model |-> models[i], tier |-> tier]]

\* the tiers concatenated the other way round
all_models_PaidFirst == Tagged(paid_models, "paid") \o Tagged(free_models, "free")

all_models == Tagged(free_models, "free") \o Tagged(paid_models, "paid")

CARBON_COST_PER_CALL == [free |-> 5, paid |-> 20]

\* the confidence as if it did not look at the tier
Confidence_Flat(tier) == 85

Confidence(tier) == IF tier = "paid" THEN 92 ELSE 85

----------------------------------------------------------------------------
(* The gateway's answers *)

RawTexts(n) == SeqsUpTo({DQ, SQ, SP, "x"}, n)

ErrorBodies == {"busy", "down"}

\* a 200 answer whose JSON holds choices[0].message.content
Completion(content) ==
    [kind |-> "http", status |-> 200, parses |-> TRUE, content |-> content, text |-> ""]

\* a 200 answer whose body is not the expected JSON (json() or the lookup raises)
Malformed ==
    [kind |-> "http", status |-> 200, parses |-> FALSE, content |-> <<>>, text |-> "KeyError"]

\* an answer with another status; text is response.text
Status(code, text) ==
    [kind |-> "http", status |-> code, parses |-> FALSE, content |-> <<>>, text |-> text]

\* client.post raised (timeout, connection error); text is str(e)
Raised(text) ==
    [kind |-> "exception", status |-> 0, parses |-> FALSE, content |-> <<>>, text |-> text]

NoResponse ==
    [kind |-> "none", status |-> 0, parses |-> FALSE, content |-> <<>>, text |-> ""]

\* a 201 answer whose JSON holds a completion; the code never reads it
Created(content) ==
    [kind |-> "http", status |-> 201, parses |-> TRUE, content |-> content, text |-> "created"]

OtherStatuses == {429, 500}

Responses(n) ==
    {Completion(c) : c \in RawTexts(n)}
    \cup {Malformed}
    \cup {Created(c) : c \in {<<>>, <<"x">>}}
    \cup {Status(s, t) : s \in OtherStatuses, t \in ErrorBodies}
    \cup {Raised("ReadTimeout")}

----------------------------------------------------------------------------
(* analyze_existing_alt_text: the compliance scorer *)

UpperOf ==
    [a |-> "A", b |-> "B", c |-> "C", d |-> "D", e |-> "E", f |-> "F", g |-> "G",
     h |-> "H", i |-> "I", j |-> "J", k |-> "K", l |-> "L", m |-> "M", n |-> "N",
     o |-> "O", p |-> "P", q |-> "Q", r |-> "R", s |-> "S", t |-> "T", u |-> "U",
     v |-> "V", w |-> "W", x |-> "X", y |-> "Y", z |-> "Z"]

UpperChar(c) == IF c \in DOMAIN UpperOf THEN UpperOf[c] ELSE c

LowerChar(c) ==
    IF \E l \in DOMAIN UpperOf : UpperOf[l] = c
    THEN CHOOSE l \in DOMAIN UpperOf : UpperOf[l] = c
    ELSE c

\* str.upper()
Upper(text) == [i \in 1..Len(text) |-> UpperChar(text[i])]

\* str.lower()
Lower(text) == [i \in 1..Len(text) |-> LowerChar(text[i])]

\* str.startswith(prefix)
StartsWith(text, prefix) ==
    Len(text) >= Len(prefix) /\ SubSeq(text, 1, Len(prefix)) = prefix

\* part in text
Contains(text, part) ==
    \E i \in 1..(Len(text) - Len(part) + 1) :
        \A j \in 1..Len(part) : text[i + j - 1] = part[j]

RedundantPrefixes ==
    { <<"i", "m", "a", "g", "e", " ", "o", "f">>,
      <<"p", "i", "c", "t", "u", "r", "e", " ", "o", "f">>,
      <<"p", "h", "o", "t", "o", " ", "o", "f">>,
      <<"i", "m", "g">> }

GenericTexts ==
    { <<"i", "m", "a", "g", "e">>, <<"p", "h", "o", "t", "o">>,
      <<"p", "i", "c", "t", "u", "r", "e">>, <<"i", "c", "o", "n">>,
      <<"l", "o", "g", "o">>, <<"g", "r", "a", "p", "h", "i", "c">>,
      <<"b", "a", "n", "n", "e", "r">>,
      <<"p", "l", "a", "c", "e", "h", "o", "l", "d", "e", "r">> }

FileExtensions ==
    { <<".", "j", "p", "g">>, <<".", "p", "n", "g">>, <<".", "g", "i", "f">>,
      <<".", "s", "v", "g">>, <<".", "w", "e", "b", "p">>, <<".", "b", "m", "p">> }

\* the rules of lines 201-223 in evaluation order, each with its penalty
ScoreRules(alt_text) ==
    << [issue |-> "redundant prefix", penalty |-> 15,
        fires |-> \E pre \in RedundantPrefixes : StartsWith(Lower(alt_text), pre)],
       [issue |-> "too short", penalty |-> 25, fires |-> Len(alt_text) < 10],
       [issue |-> "too long", penalty |-> 10, fires |-> Len(alt_text) > 250],
       [issue |-> "generic", penalty |-> 40, fires |-> Lower(alt_text) \in GenericTexts],
       [issue |-> "filename", penalty |-> 50,
        fires |-> \E ext \in FileExtensions : Contains(Lower(alt_text), ext)],
       [issue |-> "all uppercase", penalty |-> 10,
        fires |-> alt_text = Upper(alt_text) /\ Len(alt_text) > 5] >>

RECURSIVE TriggeredIssues(_)
TriggeredIssues(rules) ==
    IF rules = <<>> THEN <<>>
    ELSE (IF Head(rules).fires THEN <<Head(rules).issue>> ELSE <<>>)
         \o TriggeredIssues(Tail(rules))

\* the penalties as if a rule that fires added to the score
RECURSIVE TotalPenalty_Credited(_)
TotalPenalty_Credited(rules) ==
    IF rules = <<>> THEN 0
    ELSE (IF Head(rules).fires THEN 0 - Head(rules).penalty ELSE 0)
         + TotalPenalty_Credited(Tail(rules))

\* the penalties as if the rules were an if/elif chain
RECURSIVE TotalPenalty_FirstOnly(_)
TotalPenalty_FirstOnly(rules) ==
    IF rules = <<>> THEN 0
    ELSE IF Head(rules).fires THEN Head(rules).penalty
    ELSE TotalPenalty_FirstOnly(Tail(rules))

RECURSIVE TotalPenalty(_)
TotalPenalty(rules) ==
    IF rules = <<>> THEN 0
    ELSE (IF Head(rules).fires THEN Head(rules).penalty ELSE 0)
         + TotalPenalty(Tail(rules))

Max(a, b) == IF a >= b THEN a ELSE b

\* the blank test as if it forgot the strip()
IsBlank_EmptyOnly(alt_text) == alt_text = <<>>

\* line 192: not alt_text or alt_text.strip() == ""
IsBlank(alt_text) == alt_text = <<>> \/ Strip(alt_text, Whitespace) = <<>>

\* the thresholds as if they were exclusive
StatusOf_Exclusive(score) ==
    IF score > 80 THEN "compliant" ELSE IF score > 40 THEN "poor" ELSE "non_compliant"

\* line 226
StatusOf(score) ==
    IF score >= 80 THEN "compliant" ELSE IF score >= 40 THEN "poor" ELSE "non_compliant"

\* the issues as if an empty list were returned as it is
IssuesOrSynthetic_AsIs(issues) == issues

\* the issues as if the list outlived the call (a module-level list)
IssuesOrSynthetic_Kept(issues) ==
    IF assessment.issues \o issues # <<>> THEN assessment.issues \o issues
    ELSE <<"Alt text meets basic compliance standards">>

\* line 231
IssuesOrSynthetic(issues) ==
    IF issues # <<>> THEN issues ELSE <<"Alt text meets basic compliance standards">>

\* the recommendation as if it followed the status
Recommendation_ByStatus(score) ==
    IF score >= 40 THEN "Alt text is acceptable"
    ELSE "Consider improving alt text to better describe the image content"

\* lines 232-235
Recommendation(score) ==
    IF score >= 80 THEN "Alt text is acceptable"
    ELSE "Consider improving alt text to better describe the image content"

analyze_existing_alt_text(alt_text) ==
    IF IsBlank(alt_text)
    THEN [score |-> 0, status |-> "missing",
          issues |-> <<"Alt text is completely missing">>,
          recommendation |-> "Add descriptive alt text that conveys the image content and purpose"]
    ELSE LET rules == ScoreRules(alt_text)
             score == Max(0, 100 - TotalPenalty(rules))
         IN  [score |-> score,
              status |-> StatusOf(score),
              issues |-> IssuesOrSynthetic(TriggeredIssues(rules)),
              recommendation |-> Recommendation(score)]

----------------------------------------------------------------------------
(* generate_alt_text *)

NoError == [kind |-> "none", code |-> 0, text |-> ""]

\* the value the failure branches assign to last_error
ErrorDetail(r) ==
    IF r.kind = "exception" THEN [kind |-> "exception", code |-> 0, text |-> r.text]
    ELSE IF r.status = 200 THEN [kind |-> "exception", code |-> 0, text |-> r.text]
    ELSE IF r.status = 429 THEN [kind |-> "rate_limited", code |-> 429, text |-> r.text]
    ELSE [kind |-> "status", code |-> r.status, text |-> r.text]

\* any 2xx status taken as success
IsSuccessStatus_Any2xx(status) == status \in 200..299

\* the test of line 151
IsSuccessStatus(status) == status = 200

\* the try block reaches the return of line 161
Succeeds(r) == r.kind = "http" /\ IsSuccessStatus(r.status) /\ r.parses

\* the first failure is kept and later ones are dropped
NextLastError_KeepFirst(old, r) == IF old.kind = "none" THEN ErrorDetail(r) ELSE old

\* lines 165, 169, 174: each failure overwrites last_error
NextLastError(old, r) == ErrorDetail(r)

\* the loop is left at the first answer, whatever it is
LoopControl_StopAtFailure(success) == "return"

\* a success is recorded but the loop goes on to the next candidate
LoopControl_NoReturn(success) == "continue"

\* line 161 leaves the loop, lines 166, 170, 175 go on with it
LoopControl(success) == IF success THEN "return" ELSE "continue"

\* the loop variables model_name, tier of line 136
Candidate(i) == all_models[i]

\* the loop as if a failed candidate were asked again
NextPosition_Retry(i) == i

\* line 136: the for loop moves to the next entry of all_models
NextPosition(i) == i + 1

\* content.strip() followed by .strip('"').strip("'")
CleanQuotes(content) == Strip(Strip(Strip(content, Whitespace), {DQ}), {SQ})

\* the elif branch for inline bytes is missing
ImageContent_UrlOnly(u, b) ==
    IF Truthy(u) THEN [by |-> "url", ref |-> u]
    ELSE [by |-> "missing", ref |-> None]

\* the URL is tested against None only
ImageContent_NoneCheck(u, b) ==
    IF u # None THEN [by |-> "url", ref |-> u]
    ELSE IF Truthy(b) THEN [by |-> "data", ref |-> b]
    ELSE [by |-> "missing", ref |-> None]

\* the image part of the message, lines 101-109
ImageContent(u, b) ==
    IF Truthy(u) THEN [by |-> "url", ref |-> u]
    ELSE IF Truthy(b) THEN [by |-> "data", ref |-> b]
    ELSE [by |-> "missing", ref |-> None]

NoOutcome ==
    [kind |-> "none", exc |-> "", message |-> "", detail |-> NoError,
     alt_text |-> <<>>, model_used |-> <<>>, confidence |-> 0, carbon_cost |-> 0]

Returned(alt_text, candidate) ==
    [kind |-> "return", exc |-> "", message |-> "", detail |-> NoError,
     alt_text |-> alt_text, model_used |-> candidate.model,
     confidence |-> Confidence(candidate.tier),
     carbon_cost |-> CARBON_COST_PER_CALL[candidate.tier]]

Raise(exc, message, detail) ==
    [kind |-> "raise", exc |-> exc, message |-> message, detail |-> detail,
     alt_text |-> <<>>, model_used |-> <<>>, confidence |-> 0, carbon_cost |-> 0]

\* ValueError("OPENROUTER_API_KEY is not configured")
ConfigurationError == Raise("ValueError", "OPENROUTER_API_KEY is not configured", NoError)

\* ValueError("Either image_url or image_base64 must be provided")
InputError == Raise("ValueError", "Either image_url or image_base64 must be provided", NoError)

\* RuntimeError(f"All vision models failed. Last error: {last_error}")
AllBackendsExhausted(detail) == Raise("RuntimeError", "All vision models failed. Last error: ", detail)

ImageUrls == {None, "", "https://img"}

ImageBytes == {None, "aGVsbG8="}

WcagLevels == {"A", "AA", "AAA", "gold"}

\* lines 95-134: the checks before the loop
Enter(u, b, w) ==
    /\ pc = "idle"
    /\ image_url' = u
    /\ image_base64' = b
    /\ wcag_level' = w
    /\ calls' = <<>>
    /\ response' = NoResponse
    /\ last_error' = NoError
    /\ IF ~Truthy(settings.OPENROUTER_API_KEY)
       THEN /\ outcome' = ConfigurationError
            /\ pc' = "done"
            /\ idx' = 0
       ELSE IF ImageContent(u, b).by = "missing"
       THEN /\ outcome' = InputError
            /\ pc' = "done"
            /\ idx' = 0
       ELSE /\ outcome' = NoOutcome
            /\ pc' = "loop"
            /\ idx' = 1
    /\ UNCHANGED settings

\* generate_alt_text called on its own
Call(u, b, w) == Enter(u, b, w) /\ UNCHANGED <<routeVars, restVars>>

\* the loop as if it posted to the next candidate without awaiting the answer
NextIteration_Racing == pc \in {"loop", "await"} /\ idx <= Len(all_models)

\* line 136: the for loop is at the top of an iteration and has a candidate left
NextIteration == pc = "loop" /\ idx <= Len(all_models)

\* lines 136-149: the loop takes the next candidate and posts to it
Post ==
    /\ NextIteration
    /\ calls' = Append(calls, [model |-> Candidate(idx).model,
                               tier |-> Candidate(idx).tier,
                               image |-> ImageContent(image_url, image_base64),
                               result |-> "pending"])
    /\ pc' = "await"
    /\ UNCHANGED <<settings, image_url, image_base64, wcag_level, idx,
                   last_error, response, outcome, routeVars, restVars>>

\* what the gateway did with the request: a completion, or not
Served(r) == IF r.kind = "http" /\ r.status = 200 /\ r.parses THEN "ok" ELSE "failed"

\* lines 151-175: the awaited POST completes with r
Respond(r) ==
    /\ pc = "await"
    /\ response' = r
    /\ calls' = [calls EXCEPT ![Len(calls)].result = Served(r)]
    /\ outcome' = IF Succeeds(r)
                   THEN Returned(CleanQuotes(r.content), Candidate(idx))
                   ELSE outcome
    /\ IF LoopControl(Succeeds(r)) = "return"
       THEN /\ pc' = "done"
            /\ idx' = 0
            /\ last_error' = NoError
       ELSE /\ last_error' = IF Succeeds(r) THEN last_error ELSE NextLastError(last_error, r)
            /\ idx' = NextPosition(idx)
            /\ pc' = "loop"
    /\ UNCHANGED <<settings, image_url, image_base64, wcag_level, routeVars,
                   restVars>>

\* line 177: the loop ran out of candidates
Exhausted ==
    /\ pc = "loop"
    /\ idx > Len(all_models)
    /\ outcome' = AllBackendsExhausted(last_error)
    /\ pc' = "done"
    /\ idx' = 0
    /\ last_error' = NoError
    /\ UNCHANGED <<settings, image_url, image_base64, wcag_level, calls, response,
                   routeVars, restVars>>

\* the caller has the result; the next invocation may start
Leave ==
    /\ pc = "done"
    /\ pc' = "idle"
    /\ image_url' = None
    /\ image_base64' = None
    /\ wcag_level' = None
    /\ calls' = <<>>
    /\ response' = NoResponse
    /\ outcome' = NoOutcome
    /\ UNCHANGED <<settings, idx, last_error>>

Finish == Leave /\ UNCHANGED <<routeVars, restVars>>

NoAssessment == [score |-> 0, status |-> "", issues |-> <<>>, recommendation |-> ""]

\* analyze_existing_alt_text has not been called
InitScorer ==
    /\ scored_text = <<>>
    /\ assessment = NoAssessment
    /\ scored = <<>>

\* the locals of a generate_alt_text coroutine that has not been called
IdleFrame ==
    [pc |-> "idle", image_url |-> None, image_base64 |-> None, wcag_level |-> None,
     idx |-> 0, last_error |-> NoError, calls |-> <<>>, response |-> NoResponse,
     outcome |-> NoOutcome]

Requests == 1..MaxConcurrent

\* auth.py 46-53: the row register creates
RegisteredUser == [tier |-> "free", monthly_usage |-> 0]

NoSession == [handler |-> "none", user |-> RegisteredUser, left |-> 0]

\* no request is in flight
InitUsage ==
    /\ account = RegisteredUser
    /\ sessions = [r \in Requests |-> NoSession]

\* api_key.py 13-25: no key has been created
InitKeys ==
    /\ api_keys = <<>>
    /\ key_log = <<>>

\* webhooks.py 116-126: the dict create_webhook stores
RegisteredWebhook == [is_active |-> TRUE, deliveries_count |-> 0]

InitWebhook ==
    /\ webhook = RegisteredWebhook
    /\ wh_pc = "idle"
    /\ attempt = 0
    /\ posts = <<>>
    /\ delivered = <<>>

NoScanResult == [pages_scanned |-> 0, page_results |-> <<>>]

\* full_site_scan has not been called
InitScan ==
    /\ scan_pc = "idle"
    /\ scan_depth = 0
    /\ max_pages = 0
    /\ depth = 0
    /\ urls_to_scan = <<>>
    /\ scan_i = 0
    /\ next_urls = <<>>
    /\ scanned_urls = {}
    /\ all_results = <<>>
    /\ levels = <<>>
    /\ scan_result = NoScanResult

\* the Stripe customers of the model; each is the stripe_customer_id of one User
Customers == {"cus_1", "cus_2"}

\* auth.py 46-53: every user is registered with tier "free"; no Subscription yet
InitBilling ==
    /\ customers = [c \in Customers |-> [tier |-> "free"]]
    /\ subscriptions = <<>>
    /\ stripe_status = 0

InitServices ==
    /\ InitKeys
    /\ InitWebhook
    /\ InitScan
    /\ InitBilling

InitRest ==
    /\ InitScorer
    /\ parked = IdleFrame
    /\ InitUsage
    /\ InitServices

NoRoute == [handler |-> "none", files |-> <<>>, i |-> 0, results |-> <<>>, errors |-> 0]

NoHttpResponse == [status |-> 0, detail |-> "", body |-> <<>>]

\* no route handler runs: generate_alt_text is exercised directly
InitRoutes ==
    /\ user = [tier |-> "free", monthly_usage |-> 0]
    /\ route = NoRoute
    /\ http_response = NoHttpResponse
    /\ db = <<>>
    /\ bulk_jobs = <<>>

Init ==
    /\ InitRoutes
    /\ InitRest
    /\ settings \in Settings
    /\ pc = "idle"
    /\ image_url = None
    /\ image_base64 = None
    /\ wcag_level = None
    /\ idx = 0
    /\ last_error = NoError
    /\ calls = <<>>
    /\ response = NoResponse
    /\ outcome = NoOutcome

Next ==
    \/ \E u \in ImageUrls, b \in ImageBytes, w \in WcagLevels : Call(u, b, w)
    \/ Post
    \/ \E r \in Responses(MaxLen) : Respond(r)
    \/ Exhausted
    \/ Finish

Spec == Init /\ [][Next]_vars

\* the same, given that every awaited POST ends (the client's timeout of
\* line 135) and that the coroutine, once resumed, runs on
FairResponses ==
    {Completion(<<"x">>), Malformed, Created(<<"x">>), Status(429, "busy"),
     Status(500, "down"), Raised("ReadTimeout")}

NextFair ==
    \/ \E u \in ImageUrls, b \in ImageBytes, w \in WcagLevels : Call(u, b, w)
    \/ Post
    \/ \E r \in FairResponses : Respond(r)
    \/ Exhausted
    \/ Finish

SpecFair ==
    /\ Init
    /\ [][NextFair]_vars
    /\ WF_vars(Post)
    /\ WF_vars(\E r \in FairResponses : Respond(r))
    /\ WF_vars(Exhausted)

----------------------------------------------------------------------------
(* The same coroutine under the model lists config.py ships, with longer   *)
(* completion texts                                                        *)

\* the defaults of lines 30-31 of config.py, split at the commas
ShippedSettings ==
    [ OPENROUTER_API_KEY : {"", "sk-or-key"},
      VISION_MODELS_FREE : { << <<"google/gemini-2.0-flash-exp:free">>,
                               <<"meta-llama/llama-4-maverick:free">> >> },
      VISION_MODELS_PAID : { << <<"google/gemini-2.5-flash">>,
                               <<"openai/gpt-4.1-mini">> >> } ]

InitShipped ==
    /\ InitRoutes
    /\ InitRest
    /\ settings \in ShippedSettings
    /\ pc = "idle"
    /\ image_url = None
    /\ image_base64 = None
    /\ wcag_level = None
    /\ idx = 0
    /\ last_error = NoError
    /\ calls = <<>>
    /\ response = NoResponse
    /\ outcome = NoOutcome

NextShipped ==
    \/ \E u \in ImageUrls, b \in ImageBytes, w \in WcagLevels : Call(u, b, w)
    \/ Post
    \/ \E r \in Responses(MaxRawLen) : Respond(r)
    \/ Exhausted
    \/ Finish

SpecShipped == InitShipped /\ [][NextShipped]_vars

----------------------------------------------------------------------------
(* The route handlers that call generate_alt_text: POST /images/analyze    *)
(* and POST /bulk/process.  An Optional value is a sequence of at most one *)
(* element.                                                                *)

FREE_TIER_MONTHLY_LIMIT == 50

MAX_UPLOAD_SIZE_MB == 50

BULK_MAX_IMAGES == 100

ALLOWED_IMAGE_TYPES ==
    {"image/jpeg", "image/png", "image/webp", "image/gif",
     "image/svg+xml", "image/bmp", "image/tiff"}

Photo == [content_type |-> "image/jpeg", size |-> 5]

EmptyPhoto == [content_type |-> "image/jpeg", size |-> 0]

Document == [content_type |-> "application/pdf", size |-> 5]

HugePhoto == [content_type |-> "image/png", size |-> MAX_UPLOAD_SIZE_MB * 1024 * 1024 + 1]

\* the file argument of analyze_image: absent, or an upload
OptionalUploads == {<<>>, <<Photo>>, <<EmptyPhoto>>, <<Document>>, <<HugePhoto>>}

\* the uploads of a bulk request
BulkUploads == {Photo, EmptyPhoto}

\* base64.b64encode(content).decode()
B64(file) == IF file.size = 0 THEN "" ELSE "aGVsbG8="

\* f"data:{mime};base64,{b64}"
DataUrl(b64) == IF b64 = "" THEN "data:image/jpeg;base64," ELSE "data:image/jpeg;base64,aGVsbG8="

\* an empty alt text is taken for a failed generation
GenerationFailed_EmptyIsFailure(o) == o.kind = "raise" \/ o.alt_text = <<>>

\* the except branches around the call: images.py 100, bulk.py 98
GenerationFailed(o) == o.kind = "raise"

\* str(e) of what generate_alt_text raised
ErrorText(o) == [exc |-> o.exc, message |-> o.message, detail |-> o.detail]

HttpError(status, detail) == [status |-> status, detail |-> detail, body |-> <<>>]

HttpOk(body) == [status |-> 200, detail |-> "", body |-> <<body>>]

\* _check_usage_limit
UsageLimitReached ==
    user.tier = "free" /\ user.monthly_usage >= FREE_TIER_MONTHLY_LIMIT

generateVars == <<settings, pc, image_url, image_base64, wcag_level, idx,
                  last_error, calls, response, outcome>>

\* the handler ends with an HTTPException before it calls generate_alt_text
Reject(status, detail) ==
    /\ http_response' = HttpError(status, detail)
    /\ route' = NoRoute
    /\ UNCHANGED <<generateVars, user, db, bulk_jobs>>

\* the counting as if the failed request were counted too
CountedUsage_Always(u, o) == [u EXCEPT !.monthly_usage = @ + 1]

\* images.py 134, bulk.py 96, developer.py 195: the statement after the
\* call, which an exception of the call skips
CountedUsage(u, o) == IF GenerationFailed(o) THEN u ELSE [u EXCEPT !.monthly_usage = @ + 1]

\* images.py 54-99: the checks of analyze_image and its call of generate_alt_text
analyze_image(file, url) ==
    /\ route.handler = "none"
    /\ http_response.status = 0
    /\ pc = "idle"
    /\ UNCHANGED restVars
    /\ IF UsageLimitReached
       THEN Reject(429, "Free tier limit reached")
       ELSE IF file = <<>> /\ ~Truthy(url)
       THEN Reject(400, "Provide either an image file or image_url")
       ELSE IF file # <<>> /\ file[1].content_type \notin ALLOWED_IMAGE_TYPES
       THEN Reject(400, "Unsupported image type")
       ELSE IF file # <<>> /\ file[1].size > MAX_UPLOAD_SIZE_MB * 1024 * 1024
       THEN Reject(413, "File too large")
       ELSE /\ Enter(url, IF file # <<>> THEN B64(file[1]) ELSE None, "AAA")
            /\ route' = [NoRoute EXCEPT !.handler = "analyze_image", !.files = file]
            /\ UNCHANGED <<user, http_response, db, bulk_jobs>>

\* the AltText row of images.py 119-130
AltTextRow(o, w) ==
    [generated_text |-> o.alt_text, model_used |-> o.model_used,
     confidence_score |-> o.confidence, wcag_level |-> w,
     character_count |-> Len(o.alt_text), carbon_cost_mg |-> o.carbon_cost]

\* images.py 100-138: generate_alt_text came back to analyze_image
analyze_image_done ==
    /\ route.handler = "analyze_image"
    /\ Leave
    /\ IF GenerationFailed(outcome)
       THEN /\ http_response' = HttpError(500, "Alt text generation failed")
            /\ UNCHANGED db
       ELSE /\ db' = Append(db, AltTextRow(outcome, wcag_level))
            /\ http_response' = HttpOk(AltTextRow(outcome, wcag_level))
    /\ user' = CountedUsage(user, outcome)
    /\ route' = NoRoute
    /\ UNCHANGED <<bulk_jobs, restVars>>

\* developer.py 174-188: the usage check of generate_alt_text_api and its
\* call of generate_alt_text
generate_alt_text_api(url, w) ==
    /\ route.handler = "none"
    /\ http_response.status = 0
    /\ pc = "idle"
    /\ UNCHANGED restVars
    /\ IF UsageLimitReached
       THEN Reject(429, "Monthly limit reached. Upgrade to Pro for unlimited access.")
       ELSE /\ Enter(url, None, w)
            /\ route' = [NoRoute EXCEPT !.handler = "generate_alt_text_api"]
            /\ UNCHANGED <<user, http_response, db, bulk_jobs>>

\* the DevAPIResponse of developer.py 198-207
DevAPIResponse(o, w) ==
    [alt_text |-> o.alt_text, wcag_level |-> w, confidence |-> o.confidence,
     model |-> o.model_used, carbon_cost_mg |-> o.carbon_cost]

\* developer.py 189-207: generate_alt_text came back to generate_alt_text_api
generate_alt_text_api_done ==
    /\ route.handler = "generate_alt_text_api"
    /\ Leave
    /\ http_response' = IF GenerationFailed(outcome)
                        THEN HttpError(500, "Generation failed")
                        ELSE HttpOk(DevAPIResponse(outcome, wcag_level))
    /\ user' = CountedUsage(user, outcome)
    /\ route' = NoRoute
    /\ UNCHANGED <<db, bulk_jobs, restVars>>

\* bulk.py 44-67: the checks of start_bulk_processing
start_bulk_processing(files) ==
    /\ route.handler = "none"
    /\ http_response.status = 0
    /\ pc = "idle"
    /\ UNCHANGED restVars
    /\ IF Len(files) > BULK_MAX_IMAGES
       THEN Reject(400, "Maximum images per batch")
       ELSE IF user.tier = "free" /\ FREE_TIER_MONTHLY_LIMIT - user.monthly_usage <= 0
       THEN Reject(429, "Monthly limit reached. Upgrade for bulk processing.")
       ELSE IF user.tier = "free"
               /\ Len(files) > FREE_TIER_MONTHLY_LIMIT - user.monthly_usage
       THEN Reject(429, "Only some images remaining in your monthly quota.")
       ELSE /\ route' = [NoRoute EXCEPT !.handler = "start_bulk_processing",
                                        !.files = files]
            /\ UNCHANGED <<generateVars, user, http_response, db, bulk_jobs>>

\* bulk.py 69-82: the loop takes the next file and calls generate_alt_text
bulk_item ==
    /\ route.handler = "start_bulk_processing"
    /\ route.i < Len(route.files)
    /\ Enter(None, DataUrl(B64(route.files[route.i + 1])), "AAA")
    /\ UNCHANGED <<routeVars, restVars>>

\* the BulkJobItemResult of bulk.py 86-94
ItemCompleted(i, o) ==
    [image_index |-> i, alt_text |-> <<o.alt_text>>, confidence |-> <<o.confidence>>,
     wcag_score |-> <<analyze_existing_alt_text(o.alt_text).score>>, error |-> <<>>]

\* the BulkJobItemResult of bulk.py 101-109
ItemFailed(i, o) ==
    [image_index |-> i, alt_text |-> <<>>, confidence |-> <<>>,
     wcag_score |-> <<>>, error |-> <<ErrorText(o)>>]

\* bulk.py 84-109: generate_alt_text came back to the loop
bulk_item_done ==
    /\ route.handler = "start_bulk_processing"
    /\ Leave
    /\ IF GenerationFailed(outcome)
       THEN /\ route' = [route EXCEPT !.errors = @ + 1,
                                      !.results = Append(@, ItemFailed(route.i, outcome)),
                                      !.i = @ + 1]
       ELSE /\ route' = [route EXCEPT !.results = Append(@, ItemCompleted(route.i, outcome)),
                                      !.i = @ + 1]
    /\ user' = CountedUsage(user, outcome)
    /\ UNCHANGED <<http_response, db, bulk_jobs, restVars>>

\* the BulkJobResponse of bulk.py 114-123
BulkJobResponse(r) ==
    [total |-> Len(r.files), completed |-> Len(r.results) - r.errors,
     errors |-> r.errors, status |-> "completed", results |-> r.results]

\* bulk.py 111-128: the loop is over
bulk_finish ==
    /\ route.handler = "start_bulk_processing"
    /\ pc = "idle"
    /\ route.i = Len(route.files)
    /\ http_response' = HttpOk(BulkJobResponse(route))
    /\ bulk_jobs' = Append(bulk_jobs, BulkJobResponse(route))
    /\ route' = NoRoute
    /\ UNCHANGED <<generateVars, user, db, restVars>>

RouteResponses ==
    {Completion(c) : c \in RawTexts(MaxRouteLen)}
    \cup {Status(429, "busy"), Raised("ReadTimeout")}

Users ==
    [tier : {"free", "pro"},
     monthly_usage : {0, FREE_TIER_MONTHLY_LIMIT - 1, FREE_TIER_MONTHLY_LIMIT}]

\* one request to one of the two routes, under the shipped model lists
InitRequest ==
    /\ InitRest
    /\ settings \in ShippedSettings
    /\ user \in Users
    /\ route = NoRoute
    /\ http_response = NoHttpResponse
    /\ db = <<>>
    /\ bulk_jobs = <<>>
    /\ pc = "idle"
    /\ image_url = None
    /\ image_base64 = None
    /\ wcag_level = None
    /\ idx = 0
    /\ last_error = NoError
    /\ calls = <<>>
    /\ response = NoResponse
    /\ outcome = NoOutcome

NextRequest ==
    \/ \E f \in OptionalUploads, u \in ImageUrls : analyze_image(f, u)
    \/ analyze_image_done
    \/ \E fs \in NonEmptySeqsUpTo(BulkUploads, MaxFiles) : start_bulk_processing(fs)
    \/ bulk_item
    \/ bulk_item_done
    \/ bulk_finish
    \/ \E u \in {"", "https://img"}, w \in {"A", "AAA"} : generate_alt_text_api(u, w)
    \/ generate_alt_text_api_done
    \/ Post
    \/ \E r \in RouteResponses : Respond(r)
    \/ Exhausted

SpecRoutes == InitRequest /\ [][NextRequest]_vars

----------------------------------------------------------------------------
(* analyze_existing_alt_text applied to texts drawn from a bounded set *)

\* s * n
Repeated(s, n) == [i \in 1..n |-> s]

ScoredAlphabet == {SP, TAB, "a", "A"}

\* words the rules of lines 201-223 look for
ScoredWords ==
    { <<"i", "m", "a", "g", "e">>, <<"P", "h", "o", "t", "o">>,
      <<"B", "A", "N", "N", "E", "R">>,
      <<"p", "l", "a", "c", "e", "h", "o", "l", "d", "e", "r">>,
      <<" ", "l", "o", "g", "o">>, <<"L", "O", "G", "O">>,
      <<" ", "i", "m", "a", "g", "e", " ">>,
      <<"p", "h", "o", "t", "o", ".", "j", "p", "g">> }

ScoredPrefixes ==
    { <<>>, <<"I", "m", "a", "g", "e", " ", "o", "f", " ">>, <<"I", "M", "G">> }

ScoredFills ==
    { <<>>, Repeated("b", 7), Repeated("B", 7), Repeated("B", 251) }

ScoredSuffixes == { <<>>, <<".", "P", "N", "G">> }

\* the texts scored: every short text over the alphabet and the words,
\* alone and between a prefix, a filling and a suffix
ScoredTexts ==
    { pre \o core \o fill \o suf :
        pre \in ScoredPrefixes,
        core \in SeqsUpTo(ScoredAlphabet, MaxTextLen) \cup ScoredWords,
        fill \in ScoredFills,
        suf \in ScoredSuffixes }

\* lines 180-236: one call of analyze_existing_alt_text
ScoreCall(t) ==
    /\ scored_text' = t
    /\ assessment' = analyze_existing_alt_text(t)
    /\ scored' = Append(scored, [text |-> t, assessment |-> assessment', during |-> pc])
    /\ UNCHANGED <<generateVars, routeVars, parked, usageVars, serviceVars>>

\* the one call of a behaviour of SpecScore
ScoreOnce ==
    /\ scored = <<>>
    /\ ScoreCall(scored_text)

InitScore ==
    /\ InitRoutes
    /\ settings \in {s \in ShippedSettings : s.OPENROUTER_API_KEY # ""}
    /\ pc = "idle"
    /\ image_url = None
    /\ image_base64 = None
    /\ wcag_level = None
    /\ idx = 0
    /\ last_error = NoError
    /\ calls = <<>>
    /\ response = NoResponse
    /\ outcome = NoOutcome
    /\ scored_text \in ScoredTexts
    /\ assessment = NoAssessment
    /\ scored = <<>>
    /\ parked = IdleFrame
    /\ InitUsage
    /\ InitServices

NextScore == ScoreOnce

SpecScore == InitScore /\ [][NextScore]_vars

----------------------------------------------------------------------------
(* Calls of analyze_existing_alt_text between the steps of a              *)
(* generate_alt_text: the event loop runs a call of the scorer, which     *)
(* awaits nothing, whenever the generation is suspended or not running    *)

InterleavedTexts == { <<"i", "m", "a", "g", "e">>, <<"A", SP, "r", "e", "d", SP, "b", "a", "r", "n">> }

ScoreBetween(t) ==
    /\ Len(scored) < MaxScoreCalls
    /\ ScoreCall(t)

InterleavedResponses == {Completion(<<"x">>), Status(429, "busy")}

InitInterleaved ==
    /\ InitShipped
    /\ settings.OPENROUTER_API_KEY # ""

NextInterleaved ==
    \/ Call("https://img", None, "AAA")
    \/ Post
    \/ \E r \in InterleavedResponses : Respond(r)
    \/ Exhausted
    \/ Finish
    \/ \E t \in InterleavedTexts : ScoreBetween(t)

SpecInterleaved == InitInterleaved /\ [][NextInterleaved]_vars

----------------------------------------------------------------------------
(* Two generate_alt_text coroutines on one event loop: one runs, the      *)
(* other is suspended at its await (line 139), before its call or after   *)
(* its return                                                             *)

\* the locals of the running coroutine
Frame ==
    [pc |-> pc, image_url |-> image_url, image_base64 |-> image_base64,
     wcag_level |-> wcag_level, idx |-> idx, last_error |-> last_error,
     calls |-> calls, response |-> response, outcome |-> outcome]

\* the locals as if the image of the request were kept in a module-level name
Resumed_SharedImage(saved, running) ==
    [saved EXCEPT !.image_url = running.image_url,
                  !.image_base64 = running.image_base64]

\* the locals a coroutine finds when the event loop resumes it
Resumed(saved, running) == saved

\* the running coroutine is suspended and the event loop resumes the other
Switch ==
    /\ pc \in {"idle", "await", "done"}
    /\ parked.pc \in {"idle", "await", "done"}
    /\ parked' = Frame
    /\ LET f == Resumed(parked, Frame)
       IN  /\ pc' = f.pc
           /\ image_url' = f.image_url
           /\ image_base64' = f.image_base64
           /\ wcag_level' = f.wcag_level
           /\ idx' = f.idx
           /\ last_error' = f.last_error
           /\ calls' = f.calls
           /\ response' = f.response
           /\ outcome' = f.outcome
    /\ UNCHANGED <<settings, routeVars, scoreVars, usageVars, serviceVars>>

ConcurrentResponses == {Completion(<<DQ, "x", DQ>>), Status(429, "busy"), Raised("down")}

InitConcurrent ==
    /\ InitShipped
    /\ settings.OPENROUTER_API_KEY # ""

NextConcurrent ==
    \/ \E u \in ImageUrls, b \in ImageBytes : Call(u, b, "AAA")
    \/ Post
    \/ \E r \in ConcurrentResponses : Respond(r)
    \/ Exhausted
    \/ Finish
    \/ Switch

SpecConcurrent == InitConcurrent /\ [][NextConcurrent]_vars

----------------------------------------------------------------------------
(* The monthly usage counter under concurrent requests of one user.       *)
(* Each request has its own session and its own User object, loaded when  *)
(* the request starts; the handler counts on that object and the session  *)
(* writes the object's value to the row when the request ends.            *)

\* handlers that process one image
SingleHandlers == {"analyze_image", "analyze_image_url", "generate_alt_text_api"}

\* handlers that process a list of files
BulkHandlers == {"bulk_upload", "start_bulk_processing"}

\* get_current_user, _get_user_from_api_key: the User object of a new request
LoadedUser == account

\* the limit test as if it let the request at the limit through
LimitReached_OffByOne(u) ==
    u.tier = "free" /\ u.monthly_usage > FREE_TIER_MONTHLY_LIMIT

\* images.py 30, developer.py 175
LimitReached(u) ==
    u.tier = "free" /\ u.monthly_usage >= FREE_TIER_MONTHLY_LIMIT

\* images.py 228-229, bulk.py 51-62: the files do not fit the quota left
QuotaExceeded(u, n) ==
    u.tier = "free" /\ n > FREE_TIER_MONTHLY_LIMIT - u.monthly_usage

\* the checks a handler makes before its first await of generate_alt_text
Refused(h, u, n) ==
    IF h \in SingleHandlers THEN LimitReached(u)
    ELSE IF h = "bulk_upload" THEN LimitReached(u) \/ n > 100 \/ QuotaExceeded(u, n)
    ELSE \/ n > BULK_MAX_IMAGES
         \/ u.tier = "free" /\ FREE_TIER_MONTHLY_LIMIT - u.monthly_usage <= 0
         \/ QuotaExceeded(u, n)

\* a request arrives: the handler loads the user and makes its checks; a
\* refused request ends with its HTTPException
begin_request(r, h, n) ==
    /\ sessions[r].handler = "none"
    /\ h \in SingleHandlers => n = 1
    /\ sessions' = IF Refused(h, LoadedUser, n) THEN sessions
                   ELSE [sessions EXCEPT ![r] = [handler |-> h, user |-> LoadedUser,
                                                 left |-> n]]
    /\ UNCHANGED <<account, generateVars, routeVars, scoreVars, parked, serviceVars>>

\* the awaited generate_alt_text of request r came back: images.py 134,
\* 198, 274, bulk.py 96, developer.py 195 count a success; a failure ends a
\* single-image request with status 500 and is an error item of a bulk one
generation_done(r, ok) ==
    /\ sessions[r].handler # "none"
    /\ sessions[r].left > 0
    /\ sessions' =
         IF ok
         THEN [sessions EXCEPT ![r].user.monthly_usage = @ + 1, ![r].left = @ - 1]
         ELSE IF sessions[r].handler \in SingleHandlers
         THEN [sessions EXCEPT ![r] = NoSession]
         ELSE [sessions EXCEPT ![r].left = @ - 1]
    /\ UNCHANGED <<account, generateVars, routeVars, scoreVars, parked, serviceVars>>

\* get_db: the request ends and its session writes the User object's
\* counter to the row
end_request(r) ==
    /\ sessions[r].handler # "none"
    /\ sessions[r].left = 0
    /\ account' = [account EXCEPT !.monthly_usage = sessions[r].user.monthly_usage]
    /\ sessions' = [sessions EXCEPT ![r] = NoSession]
    /\ UNCHANGED <<generateVars, routeVars, scoreVars, parked, serviceVars>>

InitConcurrentUsage ==
    /\ InitRoutes
    /\ InitScorer
    /\ InitServices
    /\ parked = IdleFrame
    /\ settings \in {s \in ShippedSettings : s.OPENROUTER_API_KEY # ""}
    /\ pc = "idle"
    /\ image_url = None
    /\ image_base64 = None
    /\ wcag_level = None
    /\ idx = 0
    /\ last_error = NoError
    /\ calls = <<>>
    /\ response = NoResponse
    /\ outcome = NoOutcome
    /\ sessions = [r \in Requests |-> NoSession]
    /\ \E k \in 0..MaxHeadroom :
         account = [RegisteredUser EXCEPT !.monthly_usage = FREE_TIER_MONTHLY_LIMIT - k]

NextUsage ==
    \/ \E r \in Requests, h \in SingleHandlers \cup BulkHandlers, n \in 1..MaxFiles :
         begin_request(r, h, n)
    \/ \E r \in Requests, ok \in BOOLEAN : generation_done(r, ok)
    \/ \E r \in Requests : end_request(r)

SpecUsage == InitConcurrentUsage /\ [][NextUsage]_vars

----------------------------------------------------------------------------
(* API keys (app/api/routes/developer.py).  A raw key is generated fresh for *)
(* each row and key_hash is unique, so presenting a key identifies at most  *)
(* one row; key k stands for the raw key of row k, any other number for a   *)
(* key that was never issued.                                               *)

\* the ids of the users that hold keys
KeyUsers == {1, 2}

\* developer.py 88-96: the row create_api_key adds (is_active defaults to True)
NewKey(u) == [user_id |-> u, is_active |-> TRUE, requests_count |-> 0]

ActiveKey_AnyState(rows, k) == k \in 1..Len(rows)

\* developer.py 46-48: select(APIKey).where(key_hash == ..., is_active == True)
ActiveKey(rows, k) == k \in 1..Len(rows) /\ rows[k].is_active

\* developer.py 144-147: select(APIKey).where(id == key_id, user_id == current_user.id)
OwnKey(rows, key_id, u) == key_id \in 1..Len(rows) /\ rows[key_id].user_id = u

Logged(op, k, u, st) ==
    key_log' = Append(key_log, [op |-> op, key |-> k, user |-> u, status |-> st])

notKeyVars == <<generateVars, routeVars, scoreVars, parked, usageVars,
                webhookVars, scanVars, billingVars>>

\* developer.py 75-110
create_api_key(u) ==
    /\ Len(api_keys) < MaxKeys
    /\ Len(key_log) < MaxKeyOps
    /\ api_keys' = Append(api_keys, NewKey(u))
    /\ Logged("create", Len(api_keys) + 1, u, 201)
    /\ UNCHANGED notKeyVars

\* developer.py 137-157
revoke_api_key(key_id, u) ==
    /\ Len(key_log) < MaxKeyOps
    /\ IF OwnKey(api_keys, key_id, u)
       THEN /\ api_keys' = [api_keys EXCEPT ![key_id].is_active = FALSE]
            /\ Logged("revoke", key_id, u, 200)
       ELSE /\ UNCHANGED api_keys
            /\ Logged("revoke", key_id, u, 404)
    /\ UNCHANGED notKeyVars

\* developer.py 40-72: the dependency every key-authenticated route runs first;
\* 200 stands for the route being entered with the key's user
get_user_from_api_key(k) ==
    /\ Len(key_log) < MaxKeyOps
    /\ IF ActiveKey(api_keys, k)
       THEN /\ api_keys' = [api_keys EXCEPT ![k].requests_count = @ + 1]
            /\ Logged("request", k, api_keys[k].user_id, 200)
       ELSE /\ UNCHANGED api_keys
            /\ Logged("request", k, 0, 401)
    /\ UNCHANGED notKeyVars

NextKeys ==
    \/ \E u \in KeyUsers : create_api_key(u)
    \/ \E k \in 1..(MaxKeys + 1), u \in KeyUsers : revoke_api_key(k, u)
    \/ \E k \in 1..(MaxKeys + 1) : get_user_from_api_key(k)

SpecKeys == InitShipped /\ [][NextKeys]_vars

----------------------------------------------------------------------------
(* Webhook delivery (app/api/routes/webhooks.py) *)

\* config.py 89
WEBHOOK_MAX_RETRIES == 3

\* what client.post of line 71 can do: answer with a status code, or raise
\* (connection error, timeout of WEBHOOK_TIMEOUT_SECONDS)
PostAnswered(code) == [kind |-> "status", status_code |-> code]

PostRaised == [kind |-> "raised", status_code |-> 0]

PostAnswers == {PostAnswered(c) : c \in {200, 204, 299, 300, 404, 500}} \cup {PostRaised}

Accepted_AnyStatus(a) == a.kind = "status"

\* webhooks.py 72: if response.status_code < 300 (an exception skips the test)
Accepted(a) == a.kind = "status" /\ a.status_code < 300

notWebhookVars == <<generateVars, routeVars, scoreVars, parked, usageVars,
                    keyVars, scanVars, billingVars>>

\* webhooks.py 54-68: the call, up to the loop
deliver_webhook ==
    /\ wh_pc \in {"idle", "done"}
    /\ webhook.deliveries_count < MaxDeliveries
    /\ wh_pc' = "loop"
    /\ attempt' = 0
    /\ posts' = <<>>
    /\ delivered' = <<>>
    /\ UNCHANGED <<webhook, notWebhookVars>>

\* webhooks.py 68-78: one iteration of the loop, the POST and its answer
post_attempt(a) ==
    /\ wh_pc = "loop"
    /\ attempt < WEBHOOK_MAX_RETRIES
    /\ posts' = Append(posts, a)
    /\ IF Accepted(a)
       THEN /\ webhook' = [webhook EXCEPT !.deliveries_count = @ + 1]
            /\ delivered' = <<TRUE>>
            /\ wh_pc' = "done"
            /\ UNCHANGED attempt
       ELSE /\ attempt' = attempt + 1
            /\ UNCHANGED <<webhook, delivered, wh_pc>>
    /\ UNCHANGED notWebhookVars

\* webhooks.py 80: the loop ran out
give_up ==
    /\ wh_pc = "loop"
    /\ attempt >= WEBHOOK_MAX_RETRIES
    /\ delivered' = <<FALSE>>
    /\ wh_pc' = "done"
    /\ UNCHANGED <<webhook, attempt, posts, notWebhookVars>>

NextWebhook ==
    \/ deliver_webhook
    \/ \E a \in PostAnswers : post_attempt(a)
    \/ give_up

SpecWebhook == InitShipped /\ [][NextWebhook]_vars

----------------------------------------------------------------------------
(* The site scanner (app/services/scanner.py).  URLs are compared as the    *)
(* strings they are; the site is whatever discover_links finds on each page. *)

RootUrl == "https://site"

Urls == {RootUrl, "https://site/a", "https://site/b", "https://site/c"}

\* scanner.py 114, 144: discover_links builds a set and returns
\* list(links)[:max_links], a list without repetitions in any order
LinkLists == {l \in SeqsUpTo(Urls, MaxLinks) :
                 \A i, j \in 1..Len(l) : i # j => l[i] # l[j]}

\* scanner.py 30-96: the dict scan_page returns, whether the fetch worked or not
PageResult(u) == [url |-> u]

Stops_AtCapOnly(u, scanned, cap) == Cardinality(scanned) >= cap

\* scanner.py 163: if scan_url in scanned_urls or len(scanned_urls) >= max_pages
Stops(u, scanned, cap) == u \in scanned \/ Cardinality(scanned) >= cap

\* scanner.py 172: l for l in new_links if l not in scanned_urls
Unscanned(new_links, scanned) == SelectSeq(new_links, LAMBDA l : l \notin scanned)

notScanVars == <<generateVars, routeVars, scoreVars, parked, usageVars,
                 keyVars, webhookVars, billingVars>>

\* scanner.py 147-159: the call, up to the outer loop
full_site_scan(d, cap) ==
    /\ scan_pc = "idle"
    /\ scan_pc' = "for depth"
    /\ scan_depth' = d
    /\ max_pages' = cap
    /\ scanned_urls' = {}
    /\ all_results' = <<>>
    /\ urls_to_scan' = <<RootUrl>>
    /\ depth' = 0
    /\ UNCHANGED <<scan_i, next_urls, levels, scan_result, notScanVars>>

\* scanner.py 160-161: an iteration of the outer loop begins
begin_level ==
    /\ scan_pc = "for depth"
    /\ depth < scan_depth
    /\ next_urls' = <<>>
    /\ scan_i' = 1
    /\ levels' = Append(levels, urls_to_scan)
    /\ scan_pc' = "for scan_url"
    /\ UNCHANGED <<scan_depth, max_pages, depth, urls_to_scan, scanned_urls,
                   all_results, scan_result, notScanVars>>

\* scanner.py 162-172: one iteration of the inner loop that scans its URL;
\* new_links is what discover_links finds on it
scan_url(new_links) ==
    /\ scan_pc = "for scan_url"
    /\ scan_i <= Len(urls_to_scan)
    /\ ~ Stops(urls_to_scan[scan_i], scanned_urls, max_pages)
    /\ scanned_urls' = scanned_urls \cup {urls_to_scan[scan_i]}
    /\ all_results' = Append(all_results, PageResult(urls_to_scan[scan_i]))
    /\ IF depth < scan_depth - 1
       THEN next_urls' = next_urls \o Unscanned(new_links, scanned_urls')
       ELSE new_links = <<>> /\ UNCHANGED next_urls
    /\ scan_i' = scan_i + 1
    /\ UNCHANGED <<scan_pc, scan_depth, max_pages, depth, urls_to_scan, levels,
                   scan_result, notScanVars>>

\* scanner.py 162-164, 174: the inner loop ends, by exhaustion or by the break
end_level ==
    /\ scan_pc = "for scan_url"
    /\ \/ scan_i > Len(urls_to_scan)
       \/ /\ scan_i <= Len(urls_to_scan)
          /\ Stops(urls_to_scan[scan_i], scanned_urls, max_pages)
    /\ urls_to_scan' = next_urls
    /\ depth' = depth + 1
    /\ scan_pc' = "for depth"
    /\ UNCHANGED <<scan_depth, max_pages, scan_i, next_urls, scanned_urls,
                   all_results, levels, scan_result, notScanVars>>

\* scanner.py 176-196: the outer loop is over; the aggregate is returned
scan_return ==
    /\ scan_pc = "for depth"
    /\ depth >= scan_depth
    /\ scan_result' = [pages_scanned |-> Cardinality(scanned_urls),
                       page_results |-> all_results]
    /\ scan_pc' = "done"
    /\ UNCHANGED <<scan_depth, max_pages, depth, urls_to_scan, scan_i, next_urls,
                   scanned_urls, all_results, levels, notScanVars>>

NextScan ==
    \/ \E d \in 0..MaxScanDepth, cap \in 0..MaxPages : full_site_scan(d, cap)
    \/ begin_level
    \/ \E new_links \in LinkLists : scan_url(new_links)
    \/ end_level
    \/ scan_return

SpecScan == InitShipped /\ [][NextScan]_vars

----------------------------------------------------------------------------
(* Stripe webhook events (app/api/routes/billing.py).  A user is named by   *)
(* their stripe_customer_id.                                                *)

\* the subscription ids Stripe's events carry
SubscriptionIds == {"sub_1", "sub_2", "sub_3"}

\* a customer id no User row has
UnknownCustomer == "cus_0"

\* billing.py 196-201: the row a completed checkout adds
NewSubscription(c, sid) ==
    [user_id |-> c, stripe_subscription_id |-> sid, plan |-> "pro", status |-> "active"]

\* billing.py 207-212: the positions of the rows with this stripe_subscription_id
\* (at most one, the column is unique: subscription.py 18)
RowsOf(sid) == {i \in 1..Len(subscriptions) : subscriptions[i].stripe_subscription_id = sid}

notBillingVars == <<generateVars, routeVars, scoreVars, parked, usageVars,
                    keyVars, webhookVars, scanVars>>

\* billing.py 176-179: handle_webhook_event rejects the payload or its signature
rejected_event ==
    /\ stripe_status' = 400
    /\ UNCHANGED <<customers, subscriptions, notBillingVars>>

\* billing.py 186-205: checkout.session.completed.  The flush of line 205
\* raises on a stripe_subscription_id the table already holds, and nothing of
\* the request is committed.
checkout_session_completed(c, sid) ==
    /\ IF c \notin Customers
       THEN /\ stripe_status' = 200
            /\ UNCHANGED <<customers, subscriptions>>
       ELSE IF RowsOf(sid) # {}
       THEN /\ stripe_status' = 500
            /\ UNCHANGED <<customers, subscriptions>>
       ELSE /\ customers' = [customers EXCEPT ![c].tier = "pro"]
            /\ subscriptions' = Append(subscriptions, NewSubscription(c, sid))
            /\ stripe_status' = 200
    /\ UNCHANGED notBillingVars

\* billing.py 207-219: customer.subscription.deleted
customer_subscription_deleted(sid) ==
    /\ IF RowsOf(sid) = {}
       THEN UNCHANGED <<customers, subscriptions>>
       ELSE LET i == CHOOSE i \in RowsOf(sid) : TRUE
            IN  /\ subscriptions' = [subscriptions EXCEPT ![i].status = "canceled"]
                /\ customers' = [customers EXCEPT ![subscriptions[i].user_id].tier = "free"]
    /\ stripe_status' = 200
    /\ UNCHANGED notBillingVars

\* billing.py 170-221: stripe_webhook handles one event
NextBilling ==
    \/ rejected_event
    \/ \E c \in Customers \cup {UnknownCustomer}, sid \in SubscriptionIds :
         checkout_session_completed(c, sid)
    \/ \E sid \in SubscriptionIds : customer_subscription_deleted(sid)

SpecBilling == InitShipped /\ [][NextBilling]_vars

----------------------------------------------------------------------------
(* Properties of generate_alt_text *)

Finished == pc = "done"

\* an argument or setting that holds something: not None, not empty
Given(s) == s \notin {None, ""}

CredentialConfigured == Given(settings.OPENROUTER_API_KEY)

ExactlyOneSource == Given(image_url) # Given(image_base64)

NeitherSource == ~Given(image_url) /\ ~Given(image_base64)

BothSources == Given(image_url) /\ Given(image_base64)

IsExhausted == outcome.kind = "raise" /\ outcome.exc = "RuntimeError"

CandidateNames == {all_models[i].model : i \in 1..Len(all_models)}

\* the j-th POST of the invocation went to this candidate
CalledAs(j, candidate) ==
    calls[j].model = candidate.model /\ calls[j].tier = candidate.tier

\* C1: every free-tier candidate is attempted, in configured order, before
\* any paid-tier candidate; a paid candidate is invoked only after every
\* free candidate was attempted and failed; when the first free candidate
\* fails and the second succeeds, model_used is the second and nothing
\* else is invoked.
C1_FreeBeforePaid ==
    /\ \A j \in 1..Len(calls) :
         /\ calls[j].tier = "free" =>
              j <= Len(free_models) /\ calls[j].model = free_models[j]
         /\ calls[j].tier = "paid" =>
              /\ j > Len(free_models)
              /\ calls[j].model = paid_models[j - Len(free_models)]
              /\ \A i \in 1..Len(free_models) :
                   /\ CalledAs(i, [model |-> free_models[i], tier |-> "free"])
                   /\ calls[i].result = "failed"
    /\ (/\ Len(calls) >= 2
        /\ calls[1].result = "failed"
        /\ calls[2].result = "ok"
        /\ calls[2].tier = "free")
       => /\ Len(calls) = 2
          /\ outcome.kind = "return"
          /\ outcome.model_used = free_models[2]

\* two free candidates failed and the paid one is being asked
C1_Witness ==
    /\ Len(free_models) = 2
    /\ Len(calls) = 3
    /\ calls[1].result = "failed"
    /\ calls[2].result = "failed"
    /\ calls[3].tier = "paid"

\* C2: first success wins: a candidate whose call succeeded is the last
\* one invoked, the invocation returns its result, every candidate before
\* it was invoked in the fixed order and failed, and nothing is returned
\* without such a call.
C2_FirstSuccessWins ==
    /\ \A j \in 1..Len(calls) :
         /\ CalledAs(j, all_models[j])
         /\ j < Len(calls) => calls[j].result = "failed"
         /\ calls[j].result = "ok" =>
              /\ Finished
              /\ outcome.kind = "return"
              /\ outcome.model_used = all_models[j].model
    /\ outcome.kind = "return" =>
         calls # <<>> /\ calls[Len(calls)].result = "ok"

\* the second candidate succeeded after the first failed, a third exists
C2_Witness ==
    /\ Len(all_models) = 3
    /\ Len(calls) = 2
    /\ calls[1].result = "failed"
    /\ calls[2].result = "ok"
    /\ outcome.model_used = all_models[2].model

\* C3 as claimed: with a compliance level of A, AA or AAA and exactly one
\* image source, the invocation returns a result whose model_used is a
\* configured candidate, or raises AllBackendsExhausted.
C3_Claimed ==
    (Finished /\ wcag_level \in {"A", "AA", "AAA"} /\ ExactlyOneSource)
    => \/ outcome.kind = "return" /\ outcome.model_used \in CandidateNames
       \/ IsExhausted

\* C3 amended: the same, for invocations made with a credential configured.
C3_ResultOrExhausted ==
    (Finished /\ wcag_level \in {"A", "AA", "AAA"} /\ ExactlyOneSource
       /\ CredentialConfigured)
    => \/ /\ outcome.kind = "return"
          /\ outcome.model_used # <<>>
          /\ outcome.model_used \in CandidateNames
       \/ IsExhausted

\* inline bytes only, level AA, a candidate answered
C3_Witness ==
    /\ Finished
    /\ wcag_level = "AA"
    /\ ~Given(image_url)
    /\ Given(image_base64)
    /\ outcome.kind = "return"
    /\ outcome.model_used \in CandidateNames

\* C4: AllBackendsExhausted is raised exactly when the loop went through
\* every candidate once, in order, and none succeeded; it carries the
\* error detail of the last answer received.
C4_ExhaustedExactly ==
    Finished =>
      /\ IsExhausted <=>
           /\ CredentialConfigured
           /\ ~NeitherSource
           /\ Len(calls) = Len(all_models)
           /\ \A j \in 1..Len(calls) :
                CalledAs(j, all_models[j]) /\ calls[j].result = "failed"
      /\ IsExhausted =>
           outcome = AllBackendsExhausted(
                       IF calls = <<>> THEN NoError ELSE ErrorDetail(response))

\* three candidates failed with different details
C4_Witness ==
    /\ Finished
    /\ IsExhausted
    /\ Len(calls) = 3
    /\ outcome.detail.kind = "rate_limited"

\* C5 as claimed: without an image URL and without inline bytes the
\* invocation raises InputError and posts nothing.
C5_Claimed ==
    (Finished /\ NeitherSource) => outcome = InputError /\ calls = <<>>

\* C5 amended: without an image source nothing is posted, and the
\* invocation raises InputError when a credential is configured and
\* ConfigurationError when none is.
C5_NeitherSource ==
    /\ NeitherSource => calls = <<>>
    /\ (Finished /\ NeitherSource) =>
         outcome = IF CredentialConfigured THEN InputError ELSE ConfigurationError

\* an empty URL and no bytes, with an unknown compliance level
C5_Witness ==
    /\ Finished
    /\ image_url = ""
    /\ image_base64 = None
    /\ wcag_level = "gold"
    /\ outcome = InputError

\* C6: an invocation that supplies both an image URL and inline bytes
\* posts nothing and (a credential being configured) raises InputError.
C6_Claimed ==
    /\ BothSources => calls = <<>>
    /\ (Finished /\ BothSources /\ CredentialConfigured) => outcome = InputError

\* C7: without a credential the invocation raises ConfigurationError and
\* no candidate is invoked.
C7_NoCredential ==
    ~CredentialConfigured =>
      /\ calls = <<>>
      /\ pc \in {"idle", "done"}
      /\ Finished => outcome = ConfigurationError

\* no credential, a valid request
C7_Witness ==
    /\ Finished
    /\ ~CredentialConfigured
    /\ ExactlyOneSource
    /\ outcome = ConfigurationError

Answered == calls # <<>> /\ calls[Len(calls)].result # "pending"

\* C8 as claimed: an answer with any 2xx status ends the invocation with
\* that candidate's text.
C8_Claimed ==
    (Answered /\ response.kind = "http" /\ response.status \in 200..299)
    => /\ Finished
       /\ outcome.kind = "return"
       /\ outcome.model_used = calls[Len(calls)].model

\* C8 amended: an answer with status 200 whose body holds a completion
\* ends the invocation with that candidate's cleaned text; any other
\* answer, another 2xx status or an unreadable 200 body included, makes
\* the loop go on to the next candidate.
C8_Status200Only ==
    Answered =>
      IF response.kind = "http" /\ response.status = 200 /\ response.parses
      THEN /\ Finished
           /\ outcome.kind = "return"
           /\ outcome.model_used = calls[Len(calls)].model
           /\ outcome.alt_text = CleanQuotes(response.content)
      ELSE /\ outcome.kind # "return"
           /\ \/ pc = "loop" /\ idx = Len(calls) + 1
              \/ Finished /\ IsExhausted

\* a 201 answer holding a completion was passed over
C8_Witness ==
    /\ Answered
    /\ response.status = 201
    /\ response.parses
    /\ pc = "loop"
    /\ idx = 2

SurroundingQuote(text) ==
    text # <<>> /\ (Head(text) \in {DQ, SQ} \/ text[Len(text)] \in {DQ, SQ})

\* C10: the returned alt_text has no surrounding quote character, so
\* cleaning it again leaves it unchanged.
C10_Claimed ==
    outcome.kind = "return" =>
      /\ ~SurroundingQuote(outcome.alt_text)
      /\ CleanQuotes(outcome.alt_text) = outcome.alt_text

----------------------------------------------------------------------------
(* Properties of the route handlers *)

\* generate_alt_text has returned the empty alt text to a handler
EmptyResultFor(handler) ==
    /\ route.handler = handler
    /\ pc = "done"
    /\ outcome.kind = "return"
    /\ outcome.alt_text = <<>>

\* a completion that is empty once cleaned makes the invocation return ""
\* with the candidate that gave it, and nothing more is posted
EmptyCompletionReturned ==
    (/\ Answered
     /\ response.kind = "http" /\ response.status = 200 /\ response.parses
     /\ CleanQuotes(response.content) = <<>>)
    => /\ Finished
       /\ outcome = Returned(<<>>, all_models[Len(calls)])
       /\ outcome.model_used = calls[Len(calls)].model

\* the stored bulk job counts as completed every item without an error,
\* the ones with an empty alt text included
BulkCountsCompleted ==
    \A n \in 1..Len(bulk_jobs) :
      LET job == bulk_jobs[n]
      IN  /\ job.completed =
               Cardinality({k \in 1..Len(job.results) : job.results[k].error = <<>>})
          /\ job.errors =
               Cardinality({k \in 1..Len(job.results) : job.results[k].alt_text = <<>>})

\* analyze_image answers 200 with the empty text, saves the row and counts it
AnalyzeKeepsEmptyResult ==
    EmptyResultFor("analyze_image")
    => /\ http_response'.status = 200
       /\ http_response'.body[1].generated_text = <<>>
       /\ http_response'.body[1].model_used = outcome.model_used
       /\ db' = Append(db, http_response'.body[1])
       /\ user'.monthly_usage = user.monthly_usage + 1

\* the bulk loop appends a completed item holding the empty text and counts it
BulkKeepsEmptyResult ==
    EmptyResultFor("start_bulk_processing")
    => /\ route'.errors = route.errors
       /\ Len(route'.results) = Len(route.results) + 1
       /\ route'.results[Len(route'.results)].error = <<>>
       /\ route'.results[Len(route'.results)].alt_text = << <<>> >>
       /\ user'.monthly_usage = user.monthly_usage + 1

\* C9: an empty alt text is a success: generate_alt_text returns it with
\* the candidate that produced it and tries no other candidate, and
\* analyze_image and start_bulk_processing treat it as a processed item
\* (saved, answered, counted), never as a failure.
C9_EmptyIsSuccess ==
    /\ [](EmptyCompletionReturned /\ BulkCountsCompleted)
    /\ [][AnalyzeKeepsEmptyResult /\ BulkKeepsEmptyResult]_vars

\* a finished bulk job holding a completed item with the empty alt text,
\* next to an item that failed
C9_Witness ==
    /\ bulk_jobs # <<>>
    /\ bulk_jobs[1].total = 2
    /\ bulk_jobs[1].completed = 1
    /\ \E k \in 1..Len(bulk_jobs[1].results) :
         /\ bulk_jobs[1].results[k].alt_text = << <<>> >>
         /\ bulk_jobs[1].results[k].wcag_score = <<0>>

\* the tier of the candidate whose answer was returned
SuccessfulTier == calls[Len(calls)].tier

\* C11: in every result the confidence and the carbon cost follow from the
\* tier of the successful candidate alone: 0.5 mg and 0.85 exactly when it
\* is a free-tier candidate, 2.0 mg and 0.92 exactly when it is paid-tier.
C11_TierDecidesWeights ==
    outcome.kind = "return"
    => /\ SuccessfulTier \in {"free", "paid"}
       /\ SuccessfulTier = "free"
            <=> (outcome.carbon_cost = 5 /\ outcome.confidence = 85)
       /\ SuccessfulTier = "paid"
            <=> (outcome.carbon_cost = 20 /\ outcome.confidence = 92)

\* a paid-tier candidate answered after a free-tier candidate had failed
C11_Witness ==
    /\ outcome.kind = "return"
    /\ Len(calls) > 1
    /\ calls[1].tier = "free"
    /\ SuccessfulTier = "paid"
    /\ outcome.confidence = 92

----------------------------------------------------------------------------
(* Properties of analyze_existing_alt_text *)

\* a call of analyze_existing_alt_text has returned
Assessed == scored # <<>>

\* the text is empty or holds whitespace only
BlankText(t) == \A i \in 1..Len(t) : t[i] \in {SP, TAB}

\* which rules' conditions hold of t, in the order of evaluation
Firing(t) == LET rules == ScoreRules(t) IN [k \in 1..6 |-> rules[k].fires]

\* the k-th rule's condition holds of t
Fires(t, k) == Firing(t)[k]

NoRuleFires(t) == LET f == Firing(t) IN \A k \in 1..6 : ~f[k]

\* the rules and their penalties as the specification lists them
ClaimedOrder ==
    <<"redundant prefix", "too short", "too long", "generic", "filename",
      "all uppercase">>

ClaimedPenalty == <<15, 25, 10, 40, 50, 10>>

PenaltyIfFires(f, k) == IF f[k] THEN ClaimedPenalty[k] ELSE 0

IssueIfFires(f, k) == IF f[k] THEN <<ClaimedOrder[k]>> ELSE <<>>

ClaimedScore(t) ==
    LET f == Firing(t)
        sum == PenaltyIfFires(f, 1) + PenaltyIfFires(f, 2) + PenaltyIfFires(f, 3)
               + PenaltyIfFires(f, 4) + PenaltyIfFires(f, 5) + PenaltyIfFires(f, 6)
    IN  IF sum >= 100 THEN 0 ELSE 100 - sum

\* one entry per firing rule, or the synthetic entry when there is none
ClaimedIssues(t) ==
    LET f == Firing(t)
        issues == IssueIfFires(f, 1) \o IssueIfFires(f, 2) \o IssueIfFires(f, 3)
                  \o IssueIfFires(f, 4) \o IssueIfFires(f, 5) \o IssueIfFires(f, 6)
    IN  IF \A k \in 1..6 : ~f[k]
        THEN <<"Alt text meets basic compliance standards">>
        ELSE issues

Statuses == {"missing", "non_compliant", "poor", "compliant"}

\* C13: every empty or whitespace-only text is assessed "missing" with
\* score 0.0 and the one issue of the blank branch, no rule's issue next to
\* it; and every call returns an assessment.
C13_BlankIsMissing ==
    Assessed
    => /\ assessment.status \in Statuses
       /\ BlankText(scored_text)
            => /\ assessment.status = "missing"
               /\ assessment.score = 0
               /\ assessment.issues = <<"Alt text is completely missing">>

\* a text of whitespace only, on which the "too short" rule would fire
C13_Witness ==
    /\ Assessed
    /\ scored_text = <<SP, TAB, SP>>
    /\ Fires(scored_text, 2)
    /\ assessment.status = "missing"

\* C14: the score lies in [0, 100] for every text.
C14_ScoreInRange ==
    Assessed => assessment.score >= 0 /\ assessment.score <= 100

\* four rules fire together and their penalties add up to 100
C14_Witness ==
    /\ Assessed
    /\ ~BlankText(scored_text)
    /\ LET f == Firing(scored_text) IN Cardinality({k \in 1..6 : f[k]}) = 4
    /\ assessment.score = 0

\* C15: a non-blank text is "compliant" iff its score is at least 80,
\* "poor" iff it is in [40, 80), "non_compliant" iff it is below 40; the
\* status is "missing" iff the text is blank.
C15_StatusThresholds ==
    Assessed
    => /\ assessment.status = "missing" <=> BlankText(scored_text)
       /\ ~BlankText(scored_text)
            => /\ assessment.status = "compliant" <=> assessment.score >= 80
               /\ assessment.status = "poor"
                    <=> (assessment.score >= 40 /\ assessment.score < 80)
               /\ assessment.status = "non_compliant" <=> assessment.score < 40

\* a non-blank text with score 0 is non_compliant
C15_Witness ==
    /\ Assessed
    /\ scored_text = <<"I", "M", "G", ".", "P", "N", "G">>
    /\ assessment.score = 0
    /\ assessment.status = "non_compliant"

\* C16: the score of a non-blank text is max(0, 100 - the sum of the
\* penalties 15, 25, 10, 40, 50, 10 of exactly the rules whose condition
\* holds); "image" scores 35 and "photo.jpg" scores 25.
C16_AdditivePenalties ==
    Assessed /\ ~BlankText(scored_text)
    => /\ assessment.score = ClaimedScore(scored_text)
       /\ scored_text = <<"i", "m", "a", "g", "e">> => assessment.score = 35
       /\ scored_text = <<"p", "h", "o", "t", "o", ".", "j", "p", "g">>
            => assessment.score = 25

\* "image" is too short and generic at once
C16_Witness ==
    /\ Assessed
    /\ scored_text = <<"i", "m", "a", "g", "e">>
    /\ Fires(scored_text, 2)
    /\ Fires(scored_text, 4)
    /\ assessment.score = 35

\* C17: the issues are never empty; those of a non-blank text are one
\* entry per rule that fired, in the order of evaluation, and the one
\* synthetic entry if and only if no rule fired.
C17_IssuesPerRule ==
    Assessed
    => /\ assessment.issues # <<>>
       /\ ~BlankText(scored_text)
            => /\ assessment.issues = ClaimedIssues(scored_text)
               /\ assessment.issues = <<"Alt text meets basic compliance standards">>
                    <=> NoRuleFires(scored_text)

\* a text no rule fires on
C17_Witness ==
    /\ Assessed
    /\ ~BlankText(scored_text)
    /\ NoRuleFires(scored_text)
    /\ Len(assessment.issues) = 1

Acceptable == "Alt text is acceptable"

Improve == "Consider improving alt text to better describe the image content"

\* C18 as claimed: for every input the recommendation is one of the two
\* strings, the "acceptable" one iff the score is at least 80.
C18_Claimed ==
    Assessed
    => /\ assessment.recommendation \in {Acceptable, Improve}
       /\ assessment.recommendation = Acceptable <=> assessment.score >= 80

\* C18: for every non-blank input the recommendation is one of the two
\* strings, the "acceptable" one iff the score is at least 80; a blank
\* input gets a third fixed string.
C18_TwoStringsWhenNotBlank ==
    Assessed
    => /\ ~BlankText(scored_text)
            => /\ assessment.recommendation \in {Acceptable, Improve}
               /\ assessment.recommendation = Acceptable <=> assessment.score >= 80
       /\ BlankText(scored_text)
            => assessment.recommendation
                 = "Add descriptive alt text that conveys the image content and purpose"

\* a text at the threshold: score 80, "acceptable"
C18_Witness ==
    /\ Assessed
    /\ ~BlankText(scored_text)
    /\ assessment.score = 80
    /\ assessment.recommendation = Acceptable

OwnAttempts(f) ==
    \A i \in 1..Len(f.calls) :
        /\ i <= Len(all_models)
        /\ f.calls[i].model = all_models[i].model
        /\ f.calls[i].tier = all_models[i].tier
        /\ f.calls[i].image = ImageContent(f.image_url, f.image_base64)
        /\ i < Len(f.calls) => f.calls[i].result = "failed"

\* what a coroutine returned or raised follows from the answers to its own
\* calls
OwnResult(f) ==
    /\ f.outcome.kind = "return"
         => /\ f.calls # <<>>
            /\ f.response.kind = "http" /\ f.response.status = 200
            /\ f.outcome.alt_text = CleanQuotes(f.response.content)
            /\ f.outcome.model_used = all_models[Len(f.calls)].model
    /\ (f.outcome.kind = "raise" /\ f.calls # <<>>)
         => /\ Len(f.calls) = Len(all_models)
            /\ f.calls[Len(f.calls)].result = "failed"
            /\ f.outcome = AllBackendsExhausted(ErrorDetail(f.response))

\* C12: under every interleaving of two invocations, the attempts of each
\* and what it returns or raises depend only on its own request and on the
\* answers to its own calls.
C12_NoInterference ==
    /\ OwnAttempts(Frame) /\ OwnResult(Frame)
    /\ OwnAttempts(parked) /\ OwnResult(parked)

\* one invocation has exhausted the candidates while the other, started
\* with another image and answered in between, awaits its second candidate
C12_Witness ==
    /\ outcome.kind = "raise"
    /\ Len(calls) = Len(all_models)
    /\ parked.pc = "await"
    /\ Len(parked.calls) = 2
    /\ parked.image_url # image_url
    /\ parked.response # response

FailedAnswerStep ==
    /\ pc = "await"
    /\ pc' # "await"
    /\ ~(response'.kind = "http" /\ response'.status = 200 /\ response'.parses)

\* the failure is swallowed: nothing is returned or raised and the loop
\* moves to the next position
FailureSwallowed ==
    FailedAnswerStep
    => /\ outcome' = NoOutcome
       /\ pc' = "loop"
       /\ idx' = idx + 1
       /\ calls'[Len(calls')].result = "failed"

\* with a candidate left the loop posts to it; with none left it raises the
\* aggregate error
NextCandidateAttempted ==
    pc = "loop" /\ pc' # "loop"
    => IF idx <= Len(all_models)
       THEN /\ pc' = "await"
            /\ Len(calls') = Len(calls) + 1
            /\ calls'[Len(calls')].model = all_models[idx].model
            /\ outcome' = NoOutcome
       ELSE /\ pc' = "done"
            /\ outcome'.kind = "raise"
            /\ outcome'.exc = "RuntimeError"

\* C22: a failed attempt, be it a rate limit, another status or an
\* exception, is swallowed and the next candidate in order is attempted
\* whenever one remains; only the aggregate error reaches the caller.
C22_FailuresSwallowed == [][FailureSwallowed /\ NextCandidateAttempted]_vars

\* the third candidate is being asked after two failures, the last one a
\* rate limit
C22_Witness ==
    /\ pc = "await"
    /\ Len(calls) = 3
    /\ calls[1].result = "failed"
    /\ calls[2].result = "failed"
    /\ last_error.kind = "rate_limited"

\* the calls of the invocation that have not been answered
InFlight == {i \in 1..Len(calls) : calls[i].result = "pending"}

\* C23: within an invocation at most one backend call is in flight, and a
\* candidate is called only after the call to the previous one has
\* completed and failed.
C23_OneCallAtATime ==
    /\ Cardinality(InFlight) <= 1
    /\ \A i \in 1..Len(calls) : i < Len(calls) => calls[i].result = "failed"

\* the second candidate's call is in flight after the first one's failed
C23_Witness ==
    /\ pc = "await"
    /\ Len(calls) = 2
    /\ InFlight = {2}
    /\ calls[1].result = "failed"

\* C24: given that every backend call ends, an invocation that entered the
\* loop terminates; it asks each candidate at most once, in at most
\* |free list| + |paid list| calls.
C24_Terminates ==
    /\ (pc \in {"loop", "await"}) ~> (pc = "done")
    /\ [](/\ Len(calls) <= Len(free_models) + Len(paid_models)
          /\ \A i \in 1..Len(calls) : calls[i].model = all_models[i].model
                                        /\ calls[i].tier = all_models[i].tier)

\* the invocation ended after one call to every candidate
C24_Witness ==
    /\ pc = "done"
    /\ Len(calls) = Len(free_models) + Len(paid_models)
    /\ Len(calls) = 3
    /\ outcome.kind = "raise"

\* C25 as claimed: the generic rule fires if and only if the text without
\* its leading and trailing whitespace equals, ignoring case, one of the
\* eight generic words; " image " and "LOGO" both trigger it.
C25_Claimed ==
    Assessed /\ ~BlankText(scored_text)
    => /\ Fires(scored_text, 4)
            <=> Lower(Strip(scored_text, {SP, TAB})) \in GenericTexts
       /\ scored_text \in {<<" ", "i", "m", "a", "g", "e", " ">>, <<"L", "O", "G", "O">>}
            => "generic" \in {assessment.issues[i] : i \in 1..Len(assessment.issues)}

\* the handler takes what generate_alt_text returned or raised
ResultConsumed == pc = "done" /\ pc' = "idle"

\* the items of the bulk request completed so far
CompletedItems(r) == Len(r.results) - r.errors

\* every step changes the counter by one if it consumes a generated alt
\* text and leaves it alone otherwise
CountsSuccessesOnly ==
    user'.monthly_usage
      = user.monthly_usage + (IF ResultConsumed /\ outcome.kind = "return" THEN 1 ELSE 0)

\* a failed generation ends a single-image or developer-API request with
\* an error and is an error item of a bulk request
FailureIsError ==
    (ResultConsumed /\ outcome.kind = "raise")
    => IF route.handler = "start_bulk_processing"
       THEN /\ route'.errors = route.errors + 1
            /\ CompletedItems(route') = CompletedItems(route)
       ELSE /\ http_response'.status = 500
            /\ db' = db

\* in a bulk request the counter grows with the completed items
BulkCountsItems ==
    (route.handler = "start_bulk_processing" /\ route'.handler = "start_bulk_processing")
    => user'.monthly_usage - CompletedItems(route')
         = user.monthly_usage - CompletedItems(route)

----------------------------------------------------------------------------
(* Properties of the API keys *)

RevokedBy(i) == key_log[i].op = "revoke" /\ key_log[i].status = 200

\* C21: once revoke_api_key has succeeded for a key, every later request
\* presenting that key is answered 401 and the key is never active again; a
\* revocation succeeds only for the key's owner, and only an owner's
\* revocation deactivates a key.
C21_RevocationPermanent ==
    /\ \A i \in 1..Len(key_log) :
         RevokedBy(i) =>
            /\ key_log[i].key \in 1..Len(api_keys)
            /\ ~ api_keys[key_log[i].key].is_active
            /\ api_keys[key_log[i].key].user_id = key_log[i].user
            /\ \A j \in (i + 1)..Len(key_log) :
                 (key_log[j].op = "request" /\ key_log[j].key = key_log[i].key)
                    => key_log[j].status = 401
    /\ \A k \in 1..Len(api_keys) :
         ~ api_keys[k].is_active =>
            \E i \in 1..Len(key_log) :
                RevokedBy(i) /\ key_log[i].key = k /\ key_log[i].user = api_keys[k].user_id

\* a key was used, then revoked by its owner, then presented again and refused
C21_Witness ==
    \E h, i, j \in 1..Len(key_log) :
        /\ h < i /\ i < j
        /\ key_log[h].op = "request" /\ key_log[h].status = 200
        /\ RevokedBy(i) /\ key_log[i].key = key_log[h].key
        /\ key_log[j].op = "request" /\ key_log[j].key = key_log[i].key
        /\ key_log[j].status = 401

----------------------------------------------------------------------------
(* Properties of deliver_webhook *)

Below300(a) == a.kind = "status" /\ a.status_code < 300

Returns == wh_pc # "done" /\ wh_pc' = "done"

AttemptsBounded ==
    /\ Len(posts) <= WEBHOOK_MAX_RETRIES
    /\ \A i \in 1..(Len(posts) - 1) : ~ Below300(posts[i])
    /\ wh_pc = "done" =>
         (delivered = <<TRUE>> <=> \E i \in 1..Len(posts) : Below300(posts[i]))
    /\ wh_pc = "done" => delivered \in {<<TRUE>>, <<FALSE>>}

CountedOnce ==
    /\ (Returns /\ delivered' = <<TRUE>>)
          => webhook'.deliveries_count = webhook.deliveries_count + 1
    /\ (Returns /\ delivered' = <<FALSE>>)
          => webhook'.deliveries_count = webhook.deliveries_count
    /\ ~ Returns => webhook'.deliveries_count = webhook.deliveries_count

\* C26: a delivery makes at most WEBHOOK_MAX_RETRIES POSTs, none after the
\* first one answered with a status below 300, and returns True exactly when
\* one was so answered; deliveries_count grows by one on the step that returns
\* True and on no other step of the delivery.
C26_Delivery == [] AttemptsBounded /\ [][CountedOnce]_vars

\* a delivery returned True on its last allowed POST, after an exception and
\* an answer with a status, of 300 or more as the first conjunct of the
\* property requires; it was counted once
C26_Witness ==
    /\ wh_pc = "done"
    /\ delivered = <<TRUE>>
    /\ Len(posts) = WEBHOOK_MAX_RETRIES
    /\ posts[1] = PostRaised
    /\ posts[2].kind = "status"
    /\ webhook.deliveries_count = 1

----------------------------------------------------------------------------
(* Properties of full_site_scan *)

\* C27: scan_page is invoked at most once per URL and on at most max_pages
\* URLs, whatever the depth and the links found; the pages_scanned returned
\* is the number of entries of page_results.
C27_ScansOnce ==
    /\ \A i, j \in 1..Len(all_results) : i # j => all_results[i].url # all_results[j].url
    /\ Len(all_results) <= max_pages
    /\ scan_pc = "done" =>
         scan_result.pages_scanned = Len(scan_result.page_results)

\* a scan of three levels returned after the same URL had been listed for two
\* levels and scanned in the first of them only
C27_Witness ==
    /\ scan_pc = "done"
    /\ scan_result.pages_scanned = 3
    /\ \E l \in 1..(Len(levels) - 1) :
         \E i \in 1..Len(levels[l]), j \in 1..Len(levels[l + 1]) :
            levels[l][i] = levels[l + 1][j]

\* C28 as claimed: when the scan returns below the cap, every URL listed for
\* one of its levels has been scanned.
C28_Claimed ==
    scan_pc = "done" =>
        \/ Cardinality(scanned_urls) >= max_pages
        \/ \A l \in 1..Len(levels) : \A i \in 1..Len(levels[l]) :
              levels[l][i] \in scanned_urls

----------------------------------------------------------------------------
(* Properties of stripe_webhook *)

HasActiveSubscription(c) ==
    \E i \in 1..Len(subscriptions) :
        subscriptions[i].user_id = c /\ subscriptions[i].status = "active"

\* C30 as claimed: after any sequence of webhook events a user's tier is "pro"
\* exactly when the user has a Subscription with status "active", and "free"
\* otherwise.
C30_Claimed ==
    \A c \in Customers :
        customers[c].tier = (IF HasActiveSubscription(c) THEN "pro" ELSE "free")

============================================================================
